---- MODULE Spec2Model ----
(***************************************************************************)
(* path-tagging: tag records persisted one file per tag name, a per-path   *)
(* reverse index, the resolver (ResolvedTags::try_from) and its queries,   *)
(* and the tag / untag / clear commands of the command line.               *)
(*                                                                         *)
(* Strings are sequences of one-character strings, so that the file-name   *)
(* and line conversions of the code are computed and not assumed.          *)
(***************************************************************************)
EXTENDS Naturals, Sequences, FiniteSets, TLC

VARIABLES tagFiles, metaFiles, rt, root, res, out

vars == <<tagFiles, metaFiles, rt, root, res, out>>

----------------------------------------------------------------------------
(* Bounds *)

\* Number of include/inherit entries written in the tag store's documents.
MaxEdges == 2

\* Call depth at which the resolver's recursion exhausts the stack.
MaxDepth == 4

\* The edits made to a resolved graph through its mutable accessors.
MaxEdits == 2

\* The filesystem paths that get tagged.
Paths == {"/x", "/y"}

NameA == <<"a">>
NameB == <<"b">>
NameC == <<"c">>
NameAB == <<"a", ".", "b">>
NameEmpty == <<>>

\* Tag names of the resolver's stores, and tag names given on the command line.
LibNames == {NameA, NameB, NameC}
CliNames == {NameA, NameB, NameAB, NameEmpty}
Names == LibNames \cup CliNames

----------------------------------------------------------------------------
(* Generic helpers *)

Range(s) == {s[i] : i \in 1..Len(s)}

RECURSIVE Perms(_)
Perms(S) ==
    IF S = {} THEN {<<>>}
    ELSE UNION {{<<x>> \o p : p \in Perms(S \ {x})} : x \in S}

\* The elements of set S in the order sequence ord lists them: one iteration
\* order of a HashSet.
Iter(S, ord) == SelectSeq(ord, LAMBDA x : x \in S)

RECURSIVE KSubsets(_, _)
KSubsets(S, k) ==
    IF k = 0 THEN {{}}
    ELSE LET prev == KSubsets(S, k - 1)
         IN  prev \cup {s \cup {x} : s \in prev, x \in S}

\* Index of the last "." of a file name, 0 when there is none.
RECURSIVE LastDot(_, _)
LastDot(f, i) ==
    IF i = 0 THEN 0
    ELSE IF f[i] = "." THEN i
    ELSE LastDot(f, i - 1)

----------------------------------------------------------------------------
(* RawTag and its file *)

DefaultTag == [include_tags |-> {}, inherited_tags |-> {}, paths |-> {}]

query(include_tags) == [DefaultTag EXCEPT !.include_tags = include_tags]

RawTag_is_empty(tag) ==
    tag.include_tags = {} /\ tag.inherited_tags = {} /\ tag.paths = {}

\* Path::file_stem of a file name: the whole name when it has no "." or only
\* a leading one, else what precedes the last ".".
FileStem(f) ==
    LET d == LastDot(f, Len(f))
    IN  IF d <= 1 THEN f ELSE SubSeq(f, 1, d - 1)

DotTags == <<".", "t", "a", "g", "s">>
Json == <<"j", "s", "o", "n">>

\* PathBuf::set_extension("json") on the last component of a path.
SetExtensionJson(comps) ==
    LET n == Len(comps)
    IN  [comps EXCEPT ![n] = FileStem(comps[n]) \o <<".">> \o Json]

\* RawTag::resolve for a relative name without separators: the components of
\* the file below the executable's directory.  Pushing the empty name adds no
\* component, so the extension is set on ".tags" itself.
RawTag_resolve(name) ==
    SetExtensionJson(IF name = <<>> THEN <<DotTags>> ELSE <<DotTags, name>>)

Files == {RawTag_resolve(n) : n \in Names}

NoFile == [kind |-> "NoFile"]
BadJson == [kind |-> "BadJson"]
Unreadable == [kind |-> "Unreadable"]

\* A fixed listing order for the arrays of a written document.
NameOrder == CHOOSE p \in Perms(Names) : TRUE
PathOrder == CHOOSE p \in Perms(Paths) : TRUE

\* serde_json::to_vec_pretty of a RawTag: three arrays.
Serialize(tag) ==
    [kind |-> "Doc",
     include_tags |-> Iter(tag.include_tags, NameOrder),
     inherited_tags |-> Iter(tag.inherited_tags, NameOrder),
     paths |-> Iter(tag.paths, PathOrder)]

\* serde_json::from_slice into a RawTag: each array collected into a HashSet.
Deserialize(doc) ==
    [include_tags |-> Range(doc.include_tags),
     inherited_tags |-> Range(doc.inherited_tags),
     paths |-> Range(doc.paths)]

\* RawTag::load: the record, or the error std::fs::read / serde_json gives.
RawTag_load(files, name) ==
    LET c == files[RawTag_resolve(name)]
    IN  CASE c.kind = "NoFile" -> [kind |-> "Err", err |-> "NotFound"]
          [] c.kind = "Unreadable" -> [kind |-> "Err", err |-> "Io"]
          [] c.kind = "BadJson" -> [kind |-> "Err", err |-> "Serde"]
          [] OTHER -> [kind |-> "Ok", tag |-> Deserialize(c)]

\* RawTag::save: an empty record removes the file (an error, and no change,
\* when there is none), any other record is written.
RawTag_save(files, name, tag) ==
    IF RawTag_is_empty(tag)
    THEN [files EXCEPT ![RawTag_resolve(name)] = NoFile]
    ELSE [files EXCEPT ![RawTag_resolve(name)] = Serialize(tag)]

----------------------------------------------------------------------------
(* ResolvedTags::try_from *)

\* LinkedHashSet::insert: appended unless present.
PathInsert(path, key) ==
    IF key \in Range(path) THEN path ELSE Append(path, key)

\* LinkedHashSet::pop_back.
PathPopBack(path) ==
    IF path = <<>> THEN path ELSE SubSeq(path, 1, Len(path) - 1)

\* ResolvePath::new: the path's names, then the cause.
ResolvePath_new(path, cause) == Append(path, cause)

\* A resolver that puts the default record in place of a missing file.
ResolverLoad_default_on_missing(files, key) ==
    LET r == RawTag_load(files, key)
    IN  CASE r.kind = "Ok" -> [kind |-> "Some", tag |-> r.tag]
          [] r.err = "NotFound" -> [kind |-> "Some", tag |-> DefaultTag]
          [] OTHER -> [kind |-> "Fatal", source |-> r.err]

\* RawTag::load as the resolver's match sees it: Some(tag), None for a missing
\* file, or the fatal cause.
ResolverLoad(files, key) ==
    LET r == RawTag_load(files, key)
    IN  CASE r.kind = "Ok" -> [kind |-> "Some", tag |-> r.tag]
          [] r.err = "NotFound" -> [kind |-> "None"]
          [] OTHER -> [kind |-> "Fatal", source |-> r.err]

\* The iterations of include_tags.union(inherited_tags).  HashSet::union
\* iterates the larger of the two sets first (include_tags when they are of
\* one size) and then the names of the other set that the first lacks; each
\* set iterates in an order of its own.
UnionKeys(raw) ==
    LET inc == raw.include_tags
        inh == raw.inherited_tags
        first == IF Cardinality(inc) >= Cardinality(inh) THEN inc ELSE inh
        second == IF Cardinality(inc) >= Cardinality(inh) THEN inh ELSE inc
    IN  {p \o q : p \in Perms(first), q \in Perms(second \ first)}

\* HashMap::insert(key, tag).
TagsInsert(tags, key, tag) ==
    [n \in DOMAIN tags \cup {key} |-> IF n = key THEN tag ELSE tags[n]]

\* helper(path, tags, raw): the outcomes of the call, one for each way the
\* sets met during the call can iterate.  helperLoop is the loop over the
\* remaining keys of one iteration.  loads lists every RawTag::load call in
\* order.  A call at depth MaxDepth exhausts the stack.
RECURSIVE helper(_, _, _, _, _, _)
RECURSIVE helperLoop(_, _, _, _, _, _)
helperLoop(files, keys, path, tags, loads, depth) ==
    IF keys = <<>>
    THEN {[kind |-> "Ok", path |-> path, tags |-> tags, loads |-> loads]}
    ELSE
      LET key == Head(keys) IN
      IF key \in Range(path)
      THEN {[kind |-> "Cyclic", path |-> ResolvePath_new(path, key), loads |-> loads]}
      ELSE
        LET path1 == PathInsert(path, key)
            tag == ResolverLoad(files, key)
            loads1 == Append(loads, key)
        IN
        IF tag.kind = "Fatal"
        THEN {[kind |-> "Load", path |-> path1, source |-> tag.source,
               loads |-> loads1]}
        ELSE
          LET path2 == PathPopBack(path1) IN
          IF tag.kind = "Some"
          THEN
            IF depth >= MaxDepth
            THEN {[kind |-> "StackOverflow", loads |-> loads1]}
            ELSE
              UNION {IF sub.kind # "Ok" THEN {sub}
                     ELSE helperLoop(files, Tail(keys), sub.path,
                                     TagsInsert(sub.tags, key, tag.tag),
                                     sub.loads, depth)
                     : sub \in helper(files, tag.tag, path2, tags, loads1, depth + 1)}
          ELSE helperLoop(files, Tail(keys), path2, tags, loads1, depth)

helper(files, raw, path, tags, loads, depth) ==
    UNION {helperLoop(files, keys, path, tags, loads, depth) : keys \in UnionKeys(raw)}

EmptyTags == [n \in {} |-> DefaultTag]

\* ResolvedTags::try_from(raw): the outcomes of the call, each Ok with the
\* graph or the error.
try_from(files, raw) ==
    {IF r.kind = "Ok"
     THEN [kind |-> "Ok", raw |-> raw, tags |-> r.tags, loads |-> r.loads]
     ELSE r
     : r \in helper(files, raw, <<>>, EmptyTags, <<>>, 1)}

\* The ResolvedTags value of an Ok outcome.
Graph(r) == [kind |-> "Ok", raw |-> r.raw, tags |-> r.tags]

----------------------------------------------------------------------------
(* ResolvedTags queries *)

\* ResolvedTags::contains: the root's paths, or those of a directly included
\* tag that has a record.
contains(g, path) ==
    \/ path \in g.raw.paths
    \/ \E key \in g.raw.include_tags :
          key \in DOMAIN g.tags /\ path \in g.tags[key].paths

\* union_helper(tags, raw, set), with the remaining keys of its loop.
RECURSIVE union_loop(_, _, _, _, _)
union_loop(tags, raw, keys, set, ord) ==
    IF keys = <<>> THEN set \cup raw.paths
    ELSE LET key == Head(keys)
             set1 == IF key \in DOMAIN tags
                     THEN union_loop(tags, tags[key],
                                     Iter(tags[key].include_tags, ord), set, ord)
                     ELSE set
         IN  union_loop(tags, raw, Tail(keys), set1, ord)

\* A union that stops at the directly included tags.
union_helper_one_level(tags, raw, set, ord) ==
    set \cup raw.paths
        \cup UNION {tags[k].paths : k \in raw.include_tags \cap DOMAIN tags}

union_helper(tags, raw, set, ord) ==
    union_loop(tags, raw, Iter(raw.include_tags, ord), set, ord)

union_at(tags, tag, ord) == union_helper(tags, tag, {}, ord)

union(g, ord) == union_at(g.tags, g.raw, ord)

None == [some |-> FALSE, set |-> {}]
Some(set) == [some |-> TRUE, set |-> set]

\* An intersection that skips an operand that is None.
fallible_intersection_skip_none(lhs, rhs, swap) ==
    IF ~lhs.some THEN rhs
    ELSE IF ~rhs.some THEN lhs
    ELSE Some(lhs.set \cap rhs.set)

\* fallible_intersection(lhs, rhs); swap is the outcome of the comparison of
\* the two capacities, which the allocation history of the sets decides.
fallible_intersection(lhs, rhs, swap) ==
    IF ~lhs.some THEN None
    ELSE IF ~rhs.some THEN None
    ELSE LET l == IF swap THEN rhs.set ELSE lhs.set
             r == IF swap THEN lhs.set ELSE rhs.set
         IN  Some({path \in l : path \in r})

\* Itertools::tree_reduce.  A state is Ok(val) (ok) or Err(Some(val)) (has) or
\* Err(None), with the iterator's remaining items and the number of calls of
\* the reducer so far; swaps[i] is the comparison's outcome in the i-th call.
TrState(ok, has, val, it, n) ==
    [ok |-> ok, has |-> has, val |-> val, it |-> it, n |-> n]

tr_inner0(it, n, swaps) ==
    IF it = <<>> THEN TrState(FALSE, FALSE, None, it, n)
    ELSE IF Len(it) = 1 THEN TrState(FALSE, TRUE, it[1], <<>>, n)
    ELSE TrState(TRUE, TRUE, fallible_intersection(it[1], it[2], swaps[n + 1]),
                 SubSeq(it, 3, Len(it)), n + 1)

RECURSIVE tr_inner(_, _, _, _)
RECURSIVE tr_loop(_, _, _, _, _, _)
tr_inner(stop, it, n, swaps) ==
    LET r == tr_inner0(it, n, swaps)
    IN  IF ~r.ok THEN r ELSE tr_loop(0, stop, r.val, r.it, r.n, swaps)

tr_loop(height, stop, x, it, n, swaps) ==
    IF height >= stop THEN TrState(TRUE, TRUE, x, it, n)
    ELSE
      LET next == IF height = 0 THEN tr_inner0(it, n, swaps)
                  ELSE tr_inner(height, it, n, swaps)
      IN  IF next.ok
          THEN tr_loop(height + 1, stop,
                       fallible_intersection(x, next.val, swaps[next.n + 1]),
                       next.it, next.n + 1, swaps)
          ELSE IF ~next.has
          THEN TrState(FALSE, TRUE, x, next.it, next.n)
          ELSE TrState(FALSE, TRUE,
                       fallible_intersection(x, next.val, swaps[next.n + 1]),
                       next.it, next.n + 1)

\* The top call's stop is usize::MAX: more than any height the items build.
tree_reduce(items, swaps) ==
    LET r == tr_inner(Len(items) + 1, items, 0, swaps)
    IN  IF r.has THEN Some(r.val) ELSE None

\* ResolvedTags::intersection, iterating include_tags in the order ord.
intersection(g, ord, swaps) ==
    LET items == [i \in 1..Len(Iter(g.raw.include_tags, ord)) |->
                    LET key == Iter(g.raw.include_tags, ord)[i]
                    IN  IF key \in DOMAIN g.tags
                        THEN Some(union_at(g.tags, g.tags[key], ord))
                        ELSE None]
        reduced == tree_reduce(items, swaps)
        \* .flatten().unwrap_or_default()
        set == IF reduced.some /\ reduced.set.some THEN reduced.set.set ELSE {}
    IN  set \cup g.raw.paths

\* The loop of all_tags and of its helper: a name newly inserted into the set
\* has its record's inherited_tags walked.  expanded lists the helper's calls.
RECURSIVE all_tags_loop(_, _, _, _)
all_tags_loop(keys, acc, raws, ord) ==
    IF keys = <<>> THEN acc
    ELSE
      LET tag == Head(keys) IN
      IF tag \in acc.set THEN all_tags_loop(Tail(keys), acc, raws, ord)
      ELSE
        LET acc1 == [acc EXCEPT !.set = @ \cup {tag}] IN
        IF tag \in DOMAIN raws
        THEN all_tags_loop(Tail(keys),
                 all_tags_loop(Iter(raws[tag].inherited_tags, ord),
                               [acc1 EXCEPT !.expanded = Append(@, tag)],
                               raws, ord),
                 raws, ord)
        ELSE all_tags_loop(Tail(keys), acc1, raws, ord)

\* An all_tags that also walks the root's own inherited_tags.
all_tags_root_inherited(g, ord) ==
    all_tags_loop(Iter(g.raw.include_tags \cup g.raw.inherited_tags, ord),
                  [set |-> {}, expanded |-> <<>>], g.tags, ord)

all_tags(g, ord) ==
    all_tags_loop(Iter(g.raw.include_tags, ord),
                  [set |-> {}, expanded |-> <<>>], g.tags, ord)

----------------------------------------------------------------------------
(* Stores and initial values *)

NoRes == [kind |-> "None"]
NoOut == [op |-> "none"]
NoRt == [phase |-> "none"]

NoMeta == [p \in Paths |-> NoFile]
NoPaths == [n \in LibNames |-> {}]

\* The entries a store's documents may list: <<tag, field, listed tag>>.
EdgeUniverse == LibNames \X {"include", "inherit"} \X LibNames

Targets(E, n, field) == {m \in LibNames : <<n, field, m>> \in E}

Statuses == {"Doc", "NoFile", "BadJson", "Unreadable"}

\* A file that is no document lists nothing, and at most one file is unusable.
ValidStore(E, own, st) ==
    /\ \A n \in LibNames :
          st[n] # "Doc" =>
             /\ Targets(E, n, "include") = {}
             /\ Targets(E, n, "inherit") = {}
             /\ own[n] = {}
    /\ Cardinality({n \in LibNames : st[n] \in {"BadJson", "Unreadable"}}) <= 1

\* The store whose documents list the entries E and own the paths own.
LibStore(E, own, st) ==
    [f \in Files |->
       IF \E n \in LibNames : RawTag_resolve(n) = f
       THEN LET n == CHOOSE n \in LibNames : RawTag_resolve(n) = f
            IN  IF st[n] = "Doc"
                THEN Serialize([include_tags |-> Targets(E, n, "include"),
                                inherited_tags |-> Targets(E, n, "inherit"),
                                paths |-> own[n]])
                ELSE [kind |-> st[n]]
       ELSE NoFile]

ResolveRoots ==
    {[include_tags |-> i, inherited_tags |-> h, paths |-> {}] :
        i \in SUBSET LibNames, h \in {{}, {NameB}, {NameB, NameC}}}

----------------------------------------------------------------------------
(* The resolver over hand-written stores *)

InitResolve ==
    /\ \E E \in KSubsets(EdgeUniverse, MaxEdges), st \in [LibNames -> Statuses] :
          /\ ValidStore(E, NoPaths, st)
          /\ tagFiles = LibStore(E, NoPaths, st)
    /\ metaFiles = NoMeta
    /\ rt = NoRt
    /\ root = DefaultTag
    /\ res = NoRes
    /\ out = NoOut

\* ResolvedTags::try_from(raw), with one of its outcomes; one call per run.
\* root keeps the argument.
TryFrom(raw) ==
    /\ res = NoRes
    /\ root' = raw
    /\ res' \in try_from(tagFiles, raw)
    /\ UNCHANGED <<tagFiles, metaFiles, rt, out>>

NextResolve ==
    \E raw \in ResolveRoots : TryFrom(raw)

SpecResolve == InitResolve /\ [][NextResolve]_vars

----------------------------------------------------------------------------
(* What a store says, for the statements about the resolver *)

RECURSIVE Closure(_, _)
Closure(S, succ) ==
    LET T == S \cup UNION {succ[n] : n \in S}
    IN  IF T = S THEN S ELSE Closure(T, succ)

HasRecord(files, n) == RawTag_load(files, n).kind = "Ok"
FailsToLoad(files, n) ==
    LET r == RawTag_load(files, n)
    IN  r.kind = "Err" /\ r.err # "NotFound"

Keys(tag) == tag.include_tags \cup tag.inherited_tags

\* The include and inherit entries of each name's record in the store.
StoreSucc(files) ==
    [n \in Names |->
       IF HasRecord(files, n) THEN Keys(RawTag_load(files, n).tag) ELSE {}]

ReachableFrom(files, raw) == Closure(Keys(raw), StoreSucc(files))

OnCycle(files, n) == n \in Closure(StoreSucc(files)[n], StoreSucc(files))

CycleReachable(files, raw) ==
    \E n \in ReachableFrom(files, raw) : OnCycle(files, n)

AcyclicStore(files) == \A n \in Names : ~OnCycle(files, n)

NoLoadFailure(files, raw) ==
    \A n \in ReachableFrom(files, raw) : ~FailsToLoad(files, n)

Called == res.kind # "None"

\* path is a descent from the root: its first name is listed by the root, and
\* each next name by the record of the one before.
IsDescent(files, raw, path) ==
    /\ path # <<>>
    /\ path[1] \in Keys(raw)
    /\ \A i \in 1..(Len(path) - 1) : path[i + 1] \in StoreSucc(files)[path[i]]

\* C1: when a cycle of include/inherit entries is reachable from the root (and
\* nothing fails to load), try_from returns Cyclic, and the reported chain is
\* a descent from the root that ends with a name it already holds.
C1_CyclicReported ==
    (Called /\ CycleReachable(tagFiles, root) /\ NoLoadFailure(tagFiles, root))
       => /\ res.kind = "Cyclic"
          /\ IsDescent(tagFiles, root, res.path)
          /\ res.path[Len(res.path)] \in Range(PathPopBack(res.path))

\* C2 as stated: on an acyclic store without load failures try_from returns
\* Ok, and every name listed by the root or by a record of the mapping is a
\* key of the mapping, with the default record when the store has none.
C2_Original ==
    (Called /\ AcyclicStore(tagFiles) /\ NoLoadFailure(tagFiles, root))
       => /\ res.kind = "Ok"
          /\ \A n \in Keys(res.raw) \cup UNION {Keys(res.tags[k]) : k \in DOMAIN res.tags} :
                /\ n \in DOMAIN res.tags
                /\ (~HasRecord(tagFiles, n) => res.tags[n] = DefaultTag)

\* C2 amended: on an acyclic store without load failures try_from returns Ok,
\* and a name listed by the root or by a record of the mapping is a key of the
\* mapping exactly when the store has a record for it, which the mapping then
\* holds; a name the store has no record for is no key.
C2_Amended ==
    (Called /\ AcyclicStore(tagFiles) /\ NoLoadFailure(tagFiles, root))
       => /\ res.kind = "Ok"
          /\ res.raw = root
          /\ \A n \in Keys(res.raw) \cup UNION {Keys(res.tags[k]) : k \in DOMAIN res.tags} :
                /\ n \in DOMAIN res.tags <=> HasRecord(tagFiles, n)
                /\ n \in DOMAIN res.tags => res.tags[n] = RawTag_load(tagFiles, n).tag

\* C2's case: a graph two levels deep in which one listed name has a record
\* and another has none.
C2_Witness ==
    /\ res.kind = "Ok"
    /\ AcyclicStore(tagFiles)
    /\ \E k \in DOMAIN res.tags :
          /\ k \in Keys(res.raw)
          /\ \E n \in Keys(res.tags[k]) : HasRecord(tagFiles, n)
          /\ \E n \in Keys(res.tags[k]) : ~HasRecord(tagFiles, n)

\* C7: a Load error carries the whole chain from the root down to the name
\* whose load failed, and the cause of that failure.
C7_LoadPathIsChain ==
    res.kind = "Load"
       => /\ IsDescent(tagFiles, root, res.path)
          /\ FailsToLoad(tagFiles, res.path[Len(res.path)])
          /\ res.source = RawTag_load(tagFiles, res.path[Len(res.path)]).err

\* C9: in a call on an acyclic store, no name that has a record is loaded from
\* the store more than once, however many parents list it.
C9_LoadedOnce ==
    (res.kind = "Ok" /\ AcyclicStore(tagFiles))
       => \A i, j \in 1..Len(res.loads) :
             (res.loads[i] = res.loads[j] /\ HasRecord(tagFiles, res.loads[i]))
                => i = j

----------------------------------------------------------------------------
(* The queries over resolved graphs *)

EmptyFiles == [f \in Files |-> NoFile]

\* Stores without cycles: a document lists only names that come later.
Later(n) ==
    CASE n = NameA -> {NameB, NameC}
      [] n = NameB -> {NameC}
      [] OTHER -> {}

ForwardLists ==
    {l \in [LibNames -> SUBSET LibNames] :
        \A n \in LibNames : l[n] \subseteq Later(n)}

EdgesOf(inc, inh) ==
    {e \in EdgeUniverse :
        \/ e[2] = "include" /\ e[3] \in inc[e[1]]
        \/ e[2] = "inherit" /\ e[3] \in inh[e[1]]}

\* A name has a document exactly when it lists or owns something.
WrittenStatus(inc, inh, own) ==
    [n \in LibNames |->
       IF inc[n] = {} /\ inh[n] = {} /\ own[n] = {} THEN "NoFile" ELSE "Doc"]

DagStore(inc, inh, own) ==
    LibStore(EdgesOf(inc, inh), own, WrittenStatus(inc, inh, own))

QueryRoots ==
    {[include_tags |-> i, inherited_tags |-> h, paths |-> ps] :
        i \in SUBSET LibNames, h \in {{}, {NameC}}, ps \in SUBSET Paths}

\* A graph is what try_from returned for some root over some store.
InitQuery ==
    /\ \E inc \in ForwardLists,
          inh \in {[n \in LibNames |-> {}], [n \in LibNames |-> Later(n)]},
          own \in [LibNames -> SUBSET Paths],
          raw \in QueryRoots :
          /\ \E r \in try_from(DagStore(inc, inh, own), raw) :
                r.kind = "Ok" /\ res = Graph(r)
          /\ root = raw
    /\ tagFiles = EmptyFiles
    /\ metaFiles = NoMeta
    /\ rt = NoRt
    /\ out = NoOut

Swaps == [1..Cardinality(LibNames) -> BOOLEAN]

Contains(path) ==
    /\ out = NoOut
    /\ out' = [op |-> "contains", path |-> path, val |-> contains(res, path)]
    /\ UNCHANGED <<tagFiles, metaFiles, rt, root, res>>

Union(ord) ==
    /\ out = NoOut
    /\ out' = [op |-> "union", val |-> union(res, ord)]
    /\ UNCHANGED <<tagFiles, metaFiles, rt, root, res>>

Intersection(ord, swaps) ==
    /\ out = NoOut
    /\ out' = [op |-> "intersection", val |-> intersection(res, ord, swaps)]
    /\ UNCHANGED <<tagFiles, metaFiles, rt, root, res>>

NextQuery ==
    \/ \E path \in Paths : Contains(path)
    \/ \E ord \in Perms(LibNames) : Union(ord)
    \/ \E ord \in Perms(LibNames), swaps \in Swaps : Intersection(ord, swaps)

SpecQuery == InitQuery /\ [][NextQuery]_vars

\* The include entries of each record of a graph's mapping.
IncludeSucc(g) ==
    [n \in Names |-> IF n \in DOMAIN g.tags THEN g.tags[n].include_tags ELSE {}]

\* The paths owned by tag or by a record reached from it over include entries.
ReachablePaths(g, tag) ==
    tag.paths \cup
       UNION {g.tags[n].paths :
                 n \in Closure(tag.include_tags, IncludeSucc(g)) \cap DOMAIN g.tags}

\* U(k): the transitive include-union of k's record, empty without a record.
IncludeUnion(g, k) ==
    IF k \in DOMAIN g.tags THEN ReachablePaths(g, g.tags[k]) ELSE {}

\* C3: intersection() is the root's paths together with the paths that lie in
\* U(k) for every included k (none when nothing is included), whatever the
\* iteration order and the outcomes of the capacity comparisons.
C3_Intersection ==
    out.op = "intersection"
       => out.val = res.raw.paths \cup
             {p \in Paths : /\ res.raw.include_tags # {}
                            /\ \A k \in res.raw.include_tags : p \in IncludeUnion(res, k)}

\* C3's case: three included tags with records, one of them reaching a path
\* only through its own include, a path common to all three that the root
\* does not own, and a path of one of them that is left out.
C3_Witness ==
    /\ out.op = "intersection"
    /\ Cardinality(res.raw.include_tags) = 3
    /\ res.raw.include_tags \subseteq DOMAIN res.tags
    /\ out.val \ res.raw.paths # {}
    /\ \E k \in res.raw.include_tags :
          /\ IncludeUnion(res, k) \ out.val # {}
          /\ IncludeUnion(res, k) \ res.tags[k].paths # {}

\* C4: union() is the set of paths owned by the root or by a record reached
\* from it over include entries; without include entries it is the root's
\* own paths.
C4_Union ==
    out.op = "union"
       => /\ out.val = ReachablePaths(res, res.raw)
          /\ res.raw.include_tags = {} => out.val = res.raw.paths

\* C4's case: a path that only a record two include steps away owns is in the
\* union, and a path that only an inherited record owns is not.
C4_Witness ==
    /\ out.op = "union"
    /\ \E k \in res.raw.include_tags \cap DOMAIN res.tags :
          \E m \in res.tags[k].include_tags \cap DOMAIN res.tags :
             res.tags[m].paths \ (res.raw.paths \cup res.tags[k].paths) # {}
    /\ \E k \in DOMAIN res.tags : res.tags[k].paths \ out.val # {}

----------------------------------------------------------------------------
(* all_tags over resolved graphs, and over graphs edited through the public *)
(* mutable accessors                                                        *)

AllTagsRoots ==
    {[include_tags |-> i, inherited_tags |-> h, paths |-> {}] :
        i \in {{}, {NameA}, {NameA, NameB}}, h \in {{}, {NameC}}}

InitAllTags ==
    /\ \E inc \in ForwardLists, inh \in ForwardLists, raw \in AllTagsRoots :
          /\ \E r \in try_from(DagStore(inc, inh, NoPaths), raw) :
                r.kind = "Ok" /\ res = Graph(r)
          /\ root = raw
    /\ tagFiles = EmptyFiles
    /\ metaFiles = NoMeta
    /\ rt = NoRt
    /\ out = NoOut

\* The edits made to the graph so far, and the guard and the record of one
\* more.
EditsDone == IF out.op = "mut" THEN out.edits ELSE 0
CanEdit == out.op \in {"none", "mut"} /\ EditsDone < MaxEdits
Edited == [op |-> "mut", edits |-> EditsDone + 1]

\* HashSet::insert (add) or HashSet::remove (~add) of x; the edits that change
\* nothing are left out.
Changes(S, x, add) == IF add THEN x \notin S ELSE x \in S
Toggle(S, x, add) == IF add THEN S \cup {x} ELSE S \ {x}

\* raw_mut().include_tags_mut(), .inherited_tags_mut(), .paths_mut().
RawIncludeTagsMut(name, add) ==
    /\ CanEdit
    /\ Changes(res.raw.include_tags, name, add)
    /\ res' = [res EXCEPT !.raw.include_tags = Toggle(@, name, add)]
    /\ out' = Edited
    /\ UNCHANGED <<tagFiles, metaFiles, rt, root>>

RawInheritedTagsMut(name, add) ==
    /\ CanEdit
    /\ Changes(res.raw.inherited_tags, name, add)
    /\ res' = [res EXCEPT !.raw.inherited_tags = Toggle(@, name, add)]
    /\ out' = Edited
    /\ UNCHANGED <<tagFiles, metaFiles, rt, root>>

RawPathsMut(path, add) ==
    /\ CanEdit
    /\ Changes(res.raw.paths, path, add)
    /\ res' = [res EXCEPT !.raw.paths = Toggle(@, path, add)]
    /\ out' = Edited
    /\ UNCHANGED <<tagFiles, metaFiles, rt, root>>

\* tags_mut().insert(key, RawTag::default()) and tags_mut().remove(key).
TagsMutInsert(key) ==
    /\ CanEdit
    /\ IF key \in DOMAIN res.tags THEN res.tags[key] # DefaultTag ELSE TRUE
    /\ res' = [res EXCEPT !.tags = TagsInsert(@, key, DefaultTag)]
    /\ out' = Edited
    /\ UNCHANGED <<tagFiles, metaFiles, rt, root>>

TagsMutRemove(key) ==
    /\ CanEdit
    /\ key \in DOMAIN res.tags
    /\ res' = [res EXCEPT !.tags = [n \in DOMAIN @ \ {key} |-> @[n]]]
    /\ out' = Edited
    /\ UNCHANGED <<tagFiles, metaFiles, rt, root>>

\* tags_mut().get_mut(key) and the record's include_tags_mut(),
\* inherited_tags_mut(), paths_mut().
IncludeTagsMut(key, name, add) ==
    /\ CanEdit
    /\ key \in DOMAIN res.tags
    /\ Changes(res.tags[key].include_tags, name, add)
    /\ res' = [res EXCEPT !.tags[key].include_tags = Toggle(@, name, add)]
    /\ out' = Edited
    /\ UNCHANGED <<tagFiles, metaFiles, rt, root>>

InheritedTagsMut(key, name, add) ==
    /\ CanEdit
    /\ key \in DOMAIN res.tags
    /\ Changes(res.tags[key].inherited_tags, name, add)
    /\ res' = [res EXCEPT !.tags[key].inherited_tags = Toggle(@, name, add)]
    /\ out' = Edited
    /\ UNCHANGED <<tagFiles, metaFiles, rt, root>>

PathsMut(key, path, add) ==
    /\ CanEdit
    /\ key \in DOMAIN res.tags
    /\ Changes(res.tags[key].paths, path, add)
    /\ res' = [res EXCEPT !.tags[key].paths = Toggle(@, path, add)]
    /\ out' = Edited
    /\ UNCHANGED <<tagFiles, metaFiles, rt, root>>

AllTags(ord) ==
    /\ out.op \in {"none", "mut"}
    /\ out' = [op |-> "all_tags", val |-> all_tags(res, ord)]
    /\ UNCHANGED <<tagFiles, metaFiles, rt, root, res>>

NextAllTags ==
    \/ \E name \in LibNames, add \in BOOLEAN : RawIncludeTagsMut(name, add)
    \/ \E name \in LibNames, add \in BOOLEAN : RawInheritedTagsMut(name, add)
    \/ \E path \in Paths, add \in BOOLEAN : RawPathsMut(path, add)
    \/ \E key \in LibNames : TagsMutInsert(key)
    \/ \E key \in LibNames : TagsMutRemove(key)
    \/ \E key \in LibNames, name \in LibNames, add \in BOOLEAN :
          IncludeTagsMut(key, name, add)
    \/ \E key \in LibNames, name \in LibNames, add \in BOOLEAN :
          InheritedTagsMut(key, name, add)
    \/ \E key \in LibNames, path \in Paths, add \in BOOLEAN : PathsMut(key, path, add)
    \/ \E ord \in Perms(LibNames) : AllTags(ord)

SpecAllTags == InitAllTags /\ [][NextAllTags]_vars

InheritedSucc(g) ==
    [n \in Names |-> IF n \in DOMAIN g.tags THEN g.tags[n].inherited_tags ELSE {}]

\* S holds the root's include_tags and the inherited_tags of each of its names
\* that has a record.
InheritClosed(g, S) ==
    /\ g.raw.include_tags \subseteq S
    /\ \A n \in S \cap DOMAIN g.tags : g.tags[n].inherited_tags \subseteq S

\* C5: all_tags() is the smallest set that holds the root's include_tags and
\* is closed under the inherited_tags of its names' records, and no name is
\* expanded twice, also when the inherited_tags of the mapping form a cycle.
C5_AllTags ==
    out.op = "all_tags"
       => /\ out.val.set = {n \in Names : \A S \in SUBSET Names : InheritClosed(res, S) => n \in S}
          /\ \A i, j \in 1..Len(out.val.expanded) :
                out.val.expanded[i] = out.val.expanded[j] => i = j

\* C5's case: the walk went round a cycle of inherited_tags, and left out a
\* name the root inherits and a name an included record includes.
C5_Witness ==
    /\ out.op = "all_tags"
    /\ \E n \in out.val.set : n \in Closure(InheritedSucc(res)[n], InheritedSucc(res))
    /\ res.raw.inherited_tags \ out.val.set # {}
    /\ \E n \in out.val.set \cap DOMAIN res.tags : res.tags[n].include_tags \ out.val.set # {}

----------------------------------------------------------------------------
(* PathMetadata and its sidecar file *)

Text(chars) == [kind |-> "Text", text |-> chars]

\* Itertools::join("\n") of the names in the order given.
RECURSIVE JoinLines(_)
JoinLines(names) ==
    IF names = <<>> THEN <<>>
    ELSE IF Len(names) = 1 THEN names[1]
    ELSE names[1] \o <<"\n">> \o JoinLines(Tail(names))

\* str::lines from index i on, cur being the line read so far: a line ends at
\* each "\n", and what follows the last "\n" is a line unless it is empty.
RECURSIVE LinesFrom(_, _, _)
LinesFrom(text, i, cur) ==
    IF i > Len(text) THEN (IF cur = <<>> THEN <<>> ELSE <<cur>>)
    ELSE IF text[i] = "\n" THEN <<cur>> \o LinesFrom(text, i + 1, <<>>)
    ELSE LinesFrom(text, i + 1, Append(cur, text[i]))

Lines(text) == LinesFrom(text, 1, <<>>)

\* PathMetadata::load: the set of the sidecar's lines.
PathMetadata_load(metas, path) ==
    LET c == metas[path]
    IN  IF c.kind = "NoFile" THEN [kind |-> "Err", err |-> "NotFound"]
        ELSE [kind |-> "Ok", tags |-> Range(Lines(c.text))]

\* PathMetadata::save: an empty set removes the sidecar, any other set is
\* written one name per line in the set's iteration order.
PathMetadata_save(metas, path, tags, ord) ==
    IF tags = {}
    THEN [metas EXCEPT ![path] = NoFile]
    ELSE [metas EXCEPT ![path] = Text(JoinLines(Iter(tags, ord)))]

----------------------------------------------------------------------------
(* The commands *)

\* load_meta: the default metadata when there is no sidecar.
load_meta(metas, path) ==
    LET r == PathMetadata_load(metas, path)
    IN  IF r.kind = "Ok" THEN r.tags ELSE {}

\* load_tag: the default record when there is no file, nothing on any other
\* error.
load_tag(files, key) ==
    LET r == RawTag_load(files, key)
    IN  CASE r.kind = "Ok" -> [some |-> TRUE, tag |-> r.tag]
          [] r.err = "NotFound" -> [some |-> TRUE, tag |-> DefaultTag]
          [] OTHER -> [some |-> FALSE, tag |-> DefaultTag]

\* The first loop of execute_tag (add) and of execute_untag (~add).
RECURSIVE TagRecordsLoop(_, _, _, _)
TagRecordsLoop(files, keys, paths, add) ==
    IF keys = <<>> THEN files
    ELSE
      LET key == Head(keys)
          t == load_tag(files, key)
          tag == [t.tag EXCEPT !.paths = IF add THEN @ \cup Range(paths)
                                          ELSE @ \ Range(paths)]
      IN  TagRecordsLoop(IF t.some THEN RawTag_save(files, key, tag) ELSE files,
                         Tail(keys), paths, add)

\* The second loop of execute_tag (add) and of execute_untag (~add).  Each
\* path's metadata is a set of its own: ords[i] is the order in which the set
\* of the i-th path iterates when it is saved.
RECURSIVE TagMetaLoop(_, _, _, _, _)
TagMetaLoop(metas, paths, tags, add, ords) ==
    IF paths = <<>> THEN metas
    ELSE
      LET path == Head(paths)
          meta == load_meta(metas, path)
          meta1 == IF add THEN meta \cup Range(tags) ELSE meta \ Range(tags)
      IN  TagMetaLoop(PathMetadata_save(metas, path, meta1, Head(ords)),
                      Tail(paths), tags, add, Tail(ords))

execute_tag(files, metas, paths, tags, ords) ==
    [tagFiles |-> TagRecordsLoop(files, tags, paths, TRUE),
     metaFiles |-> TagMetaLoop(metas, paths, tags, TRUE, ords)]

\* An untag that leaves the tag records alone.
execute_untag_meta_only(files, metas, paths, tags, ords) ==
    [tagFiles |-> files,
     metaFiles |-> TagMetaLoop(metas, paths, tags, FALSE, ords)]

execute_untag(files, metas, paths, tags, ords) ==
    [tagFiles |-> TagRecordsLoop(files, tags, paths, FALSE),
     metaFiles |-> TagMetaLoop(metas, paths, tags, FALSE, ords)]

\* The first loop of execute_clear over the loaded (meta, path) pairs: the
\* path leaves the record of each of its tags that the mapping holds.
RECURSIVE ClearMappingLoop(_, _)
ClearMappingLoop(qtags, loaded) ==
    IF loaded = <<>> THEN qtags
    ELSE
      LET meta == Head(loaded).meta
          path == Head(loaded).path
      IN  ClearMappingLoop(
              [key \in DOMAIN qtags |->
                 IF key \in meta
                 THEN [qtags[key] EXCEPT !.paths = @ \ {path}]
                 ELSE qtags[key]],
              Tail(loaded))

\* The drained metadata of each pair is saved, which removes its sidecar: an
\* empty set has nothing to iterate.
RECURSIVE ClearMetaLoop(_, _)
ClearMetaLoop(metas, loaded) ==
    IF loaded = <<>> THEN metas
    ELSE ClearMetaLoop(PathMetadata_save(metas, Head(loaded).path, {}, <<>>),
                       Tail(loaded))

\* The second loop of execute_clear: each queried tag the mapping holds is
\* saved.
RECURSIVE ClearSaveLoop(_, _, _)
ClearSaveLoop(files, keys, qtags) ==
    IF keys = <<>> THEN files
    ELSE
      LET key == Head(keys)
      IN  ClearSaveLoop(IF key \in DOMAIN qtags
                        THEN RawTag_save(files, key, qtags[key])
                        ELSE files,
                        Tail(keys), qtags)

\* execute_clear: the outcomes of the command, one for each outcome of the
\* resolution; nothing is written when the resolution fails or does not
\* return.  ord is the order in which the query's include_tags iterate in the
\* second loop.
execute_clear(files, metas, paths, ord) ==
    LET loaded == [i \in 1..Len(paths) |->
                     [meta |-> load_meta(metas, paths[i]), path |-> paths[i]]]
        tags == UNION {loaded[i].meta : i \in 1..Len(loaded)}
    IN  {IF q.kind # "Ok"
         THEN [tagFiles |-> files, metaFiles |-> metas]
         ELSE [tagFiles |-> ClearSaveLoop(files, Iter(q.raw.include_tags, ord),
                                          ClearMappingLoop(q.tags, loaded)),
               metaFiles |-> ClearMetaLoop(metas, loaded)]
         : q \in try_from(files, query(tags))}

----------------------------------------------------------------------------
(* The command line over a store *)

CliEdgeChoices ==
    {{}, {<<NameA, "include", NameB>>},
     {<<NameA, "include", NameB>>, <<NameB, "include", NameA>>}}

CliStatus(E) ==
    [n \in LibNames |-> IF \E e \in E : e[1] = n THEN "Doc" ELSE "NoFile"]

\* A store whose documents list tags and own no path, and no sidecar.
InitCli ==
    /\ \E E \in CliEdgeChoices : tagFiles = LibStore(E, NoPaths, CliStatus(E))
    /\ metaFiles = NoMeta
    /\ rt = NoRt
    /\ root = DefaultTag
    /\ res = NoRes
    /\ out = NoOut

\* The arguments of a command: one path or both, one tag or two.
PathArgs == {<<"/x">>, <<"/x", "/y">>}
TagArgs == {<<t>> : t \in CliNames} \cup {<<NameA, NameB>>}

\* Two opposite iteration orders: every two names are met in both orders, and
\* the empty name first and last.
CliOrder == <<NameEmpty, NameA, NameAB, NameB>>
CliOrders == {CliOrder, [i \in 1..Len(CliOrder) |-> CliOrder[Len(CliOrder) + 1 - i]]}

\* The orders in which a sidecar's names are written: what its lines read
\* back as depends on whether the empty name is written last.
MetaOrders == {CliOrder, Tail(CliOrder) \o <<NameEmpty>>}

ExecuteTag(paths, tags, ords) ==
    LET r == execute_tag(tagFiles, metaFiles, paths, tags, ords)
    IN  /\ tagFiles' = r.tagFiles
        /\ metaFiles' = r.metaFiles
        /\ rt' = IF Len(paths) = 1 /\ Len(tags) = 1
                 THEN [phase |-> "tagged", path |-> paths[1], tag |-> tags[1]]
                 ELSE NoRt
        /\ UNCHANGED <<root, res, out>>

ExecuteUntag(paths, tags, ords) ==
    LET r == execute_untag(tagFiles, metaFiles, paths, tags, ords)
    IN  /\ tagFiles' = r.tagFiles
        /\ metaFiles' = r.metaFiles
        /\ rt' = IF /\ Len(paths) = 1 /\ Len(tags) = 1
                    /\ rt = [phase |-> "tagged", path |-> paths[1], tag |-> tags[1]]
                 THEN [phase |-> "untagged", path |-> paths[1], tag |-> tags[1]]
                 ELSE NoRt
        /\ UNCHANGED <<root, res, out>>

ExecuteClear(paths, ord) ==
    \E r \in execute_clear(tagFiles, metaFiles, paths, ord) :
        /\ tagFiles' = r.tagFiles
        /\ metaFiles' = r.metaFiles
        /\ rt' = NoRt
        /\ UNCHANGED <<root, res, out>>

NextCli ==
    \/ \E paths \in PathArgs, tags \in TagArgs :
          \E ords \in [1..Len(paths) -> MetaOrders] : ExecuteTag(paths, tags, ords)
    \/ \E paths \in PathArgs, tags \in TagArgs :
          \E ords \in [1..Len(paths) -> MetaOrders] : ExecuteUntag(paths, tags, ords)
    \/ \E paths \in PathArgs, ord \in CliOrders : ExecuteClear(paths, ord)

SpecCli == InitCli /\ [][NextCli]_vars

\* The record load_tag gives for a name, and the tags load_meta gives for a
\* path, in the current store.
RecordOf(T) == load_tag(tagFiles, T).tag
TagsOf(p) == load_meta(metaFiles, p)

\* Some tag that T's record includes directly has a record owning p.
IncludedOwner(T, p) ==
    \E k \in RecordOf(T).include_tags :
       HasRecord(tagFiles, k) /\ p \in RecordOf(k).paths

\* C6 as stated: after tag (p, T) then untag (p, T), T's record is without p,
\* p's metadata is without T, and a graph resolved from T's freshly loaded
\* record does not contain p.
C6_Original ==
    rt.phase = "untagged"
       => /\ rt.path \notin RecordOf(rt.tag).paths
          /\ rt.tag \notin TagsOf(rt.path)
          /\ \A r \in try_from(tagFiles, RecordOf(rt.tag)) :
                r.kind = "Ok" => ~contains(r, rt.path)

\* C6 amended: after tag (p, T) then untag (p, T), T's record is without p,
\* p's metadata is without T, and a graph resolved from T's freshly loaded
\* record contains p exactly when a tag that T includes directly has a
\* record owning p.
C6_Amended ==
    rt.phase = "untagged"
       => /\ rt.path \notin RecordOf(rt.tag).paths
          /\ rt.tag \notin TagsOf(rt.path)
          /\ \A r \in try_from(tagFiles, RecordOf(rt.tag)) :
                r.kind = "Ok" =>
                   (contains(r, rt.path) <=> IncludedOwner(rt.tag, rt.path))

\* C6's case: the round trip was run on a tag that includes another tag, the
\* graph resolves, and the included tag owns the path.
C6_Witness ==
    /\ rt.phase = "untagged"
    /\ \E r \in try_from(tagFiles, RecordOf(rt.tag)) : r.kind = "Ok"
    /\ IncludedOwner(rt.tag, rt.path)

\* C8: the store holds no tag record with all three sets empty and no path
\* metadata with an empty tag set.
C8_NoEmptyEntries ==
    /\ \A f \in Files :
          tagFiles[f].kind = "Doc" => ~RawTag_is_empty(Deserialize(tagFiles[f]))
    /\ \A p \in Paths :
          metaFiles[p].kind = "Text" => PathMetadata_load(metaFiles, p).tags # {}

\* C10: while the store's entries are acyclic, a tag's record owns a path
\* exactly when the path's metadata lists the tag.
C10_Consistent ==
    AcyclicStore(tagFiles)
       => \A T \in CliNames, p \in Paths :
             p \in RecordOf(T).paths <=> T \in TagsOf(p)

====
